---- MODULE Spec2Model ----
(***************************************************************************)
(* LineGraphView (networkx_linegraph/_linegraph.py): a read-only view of   *)
(* the line graph L(G) of a networkx Graph / DiGraph G.                    *)
(*                                                                         *)
(* The underlying graph is modelled as networkx keeps it: an insertion     *)
(* ordered node dictionary (nodes) whose values are insertion ordered      *)
(* adjacency dictionaries (adj).  For a DiGraph adj is the successor map.  *)
(* A line node is a pair <<u, v>>.                                         *)
(***************************************************************************)
EXTENDS Integers, Sequences, FiniteSets, TLC

\* Node values of G are 1..MaxNode; G never holds more than MaxEdges edges.
MaxNode == 4
MaxEdges == 3
\* With a client that keeps collection objects, G is built on 1..MaxKeptNode.
MaxKeptNode == 3

Nodes == 1..MaxNode
Pairs == Nodes \X Nodes

VARIABLES
    directed,      \* G.is_directed(): fixed when G is created
    nodes,         \* keys of G._adj in insertion order
    adj,           \* adj[u]: keys of G._adj[u] in insertion order
    edges_cached,  \* the cached_property LineGraphView.edges has been filled
    nbr_node,      \* the node a held Neighbors object is bound to, <<>> if none
    generated      \* the local set `generated` as the last edges pass left it

vars == <<directed, nodes, adj, edges_cached, nbr_node, generated>>

----------------------------------------------------------------------------
(* Sequence helpers                                                        *)

Range(s) == {s[i] : i \in DOMAIN s}

SeqHas(s, x) == \E i \in DOMAIN s : s[i] = x

Remove(s, x) == SelectSeq(s, LAMBDA y : y # x)

RECURSIVE SumLen(_, _)
\* sum over the first k nodes n of f[n]
SumLen(f, k) == IF k = 0 THEN 0 ELSE f[nodes[k]] + SumLen(f, k - 1)

----------------------------------------------------------------------------
(* The collaborator G, as the view reads it                                *)

\* u in G._adj
InG(u) == SeqHas(nodes, u)

\* set(node) for a pair
EndSet(p) == {p[1], p[2]}

\* G.has_edge(u, v): `v in self._adj[u]`, KeyError -> False
GHasEdge(u, v) == InG(u) /\ SeqHas(adj[u], v)

\* `e in G.edges` for a pair e of node values.  OutEdgeView looks up
\* adj[u] only; EdgeView tries adj[u] and then adj[v]; a KeyError (u or v is
\* no node of G) gives False.
GEdgesContains(e) ==
    IF directed
    THEN InG(e[1]) /\ SeqHas(adj[e[1]], e[2])
    ELSE InG(e[1]) /\ (SeqHas(adj[e[1]], e[2]) \/ (InG(e[2]) /\ SeqHas(adj[e[2]], e[1])))

RECURSIVE GEdgesFrom(_)
\* iter(G.edges) from the i-th node on.  DiGraph: every (n, nbr).  Graph:
\* (n, nbr) unless nbr is a node whose own pass is already over.
GEdgesFrom(i) ==
    IF i > Len(nodes) THEN <<>>
    ELSE LET n == nodes[i]
             seen == {nodes[j] : j \in 1..(i - 1)}
             nbrs == IF directed THEN adj[n]
                     ELSE SelectSeq(adj[n], LAMBDA nbr : nbr \notin seen)
         IN  [k \in 1..Len(nbrs) |-> <<n, nbrs[k]>>] \o GEdgesFrom(i + 1)

GEdges == GEdgesFrom(1)

\* len(G.edges).  OutEdgeView: sum of len(nbrs).  EdgeView:
\* sum(len(nbrs) + (n in nbrs)) // 2.
GEdgesLen ==
    IF directed
    THEN SumLen([n \in Nodes |-> Len(adj[n])], Len(nodes))
    ELSE SumLen([n \in Nodes |-> Len(adj[n]) + (IF SeqHas(adj[n], n) THEN 1 ELSE 0)],
                Len(nodes)) \div 2

----------------------------------------------------------------------------
(* LineGraphView on line nodes that are pairs of node values               *)

is_directed == directed

\* LineGraphView.__iter__: iter(self._graph.edges)
LineGraphView_iter == GEdges

\* len(self._graph) in place of len(self._graph.edges)
LineGraphView_len_nodes == Len(nodes)

\* LineGraphView.__len__: len(self._graph.edges)
LineGraphView_len == GEdgesLen

\* LineGraphView.number_of_nodes
number_of_nodes == GEdgesLen

\* LineGraphView.order
order == GEdgesLen

\* a shared endpoint is asked for, not exactly one
SomeCommon(node, other) == Cardinality(EndSet(node) \cap EndSet(other)) >= 1

\* set(node) & set(other) has exactly one element
OneCommon(node, other) == Cardinality(EndSet(node) \cap EndSet(other)) = 1

\* has_edge(node, other) for two pairs of node values
has_edge(node, other) ==
    IF GEdgesContains(node) /\ GEdgesContains(other)
    THEN IF is_directed
         THEN node[2] = other[1]
         ELSE OneCommon(node, other)
    ELSE FALSE

\* Neighbors.__contains__ of neighbors(node) for a pair of node values
Neighbors_contains(node, other) == has_edge(node, other)

\* the edge itself is not taken off the two adjacency sizes
Neighbors_len_whole(node) ==
    IF is_directed
    THEN Len(adj[node[2]])
    ELSE Len(adj[node[1]]) + Len(adj[node[2]])

\* Neighbors.__len__ of neighbors(node)
Neighbors_len(node) ==
    IF is_directed
    THEN Len(adj[node[2]])
    ELSE Len(adj[node[1]]) + Len(adj[node[2]]) - 2

\* (node[0], src) is yielded in place of (src, node[0])
NeighborsFirstPass_flipped(node) ==
    LET srcs == SelectSeq(adj[node[1]], LAMBDA src : {node[1], src} # EndSet(node))
    IN  [k \in 1..Len(srcs) |-> <<node[1], srcs[k]>>]

\* the first generator of the chain: (src, node[0]) for src in adj[node[0]]
NeighborsFirstPass(node) ==
    LET srcs == SelectSeq(adj[node[1]], LAMBDA src : {node[1], src} # EndSet(node))
    IN  [k \in 1..Len(srcs) |-> <<srcs[k], node[1]>>]

\* the second generator: (node[1], dest) for dest in adj[node[1]]
NeighborsSecondPass(node) ==
    LET dests == SelectSeq(adj[node[2]], LAMBDA dest : {node[2], dest} # EndSet(node))
    IN  [k \in 1..Len(dests) |-> <<node[2], dests[k]>>]

\* the two generators chained the other way round
Neighbors_iter_swapped(node) ==
    IF is_directed
    THEN [k \in 1..Len(adj[node[2]]) |-> <<node[2], adj[node[2]][k]>>]
    ELSE NeighborsSecondPass(node) \o NeighborsFirstPass(node)

\* Neighbors.__iter__ of neighbors(node), as the list it produces
Neighbors_iter(node) ==
    IF is_directed
    THEN [k \in 1..Len(adj[node[2]]) |-> <<node[2], adj[node[2]][k]>>]
    ELSE NeighborsFirstPass(node) \o NeighborsSecondPass(node)

\* frozenset([node, dest]): the two tuples, not their endpoint sets
EdgeKeyTuples(node, dest) == {node, dest}

\* frozenset([frozenset(node), frozenset(dest)])
EdgeKey(node, dest) == {EndSet(node), EndSet(dest)}

\* `generated` is kept from the pass before
GeneratedKept == generated

\* the value of `generated` when an undirected pass over the edges starts
GeneratedAtStart == {}

RECURSIVE EdgesInner(_, _, _, _)
\* the inner loop of Edges.__iter__ from the k-th neighbour of node on;
\* st = [generated, out], out being the pairs yielded so far
EdgesInner(node, dests, k, st) ==
    IF k > Len(dests) THEN st
    ELSE LET dest == dests[k]
             edge == EdgeKey(node, dest)
         IN  IF is_directed
             THEN EdgesInner(node, dests, k + 1,
                      [st EXCEPT !.out = Append(@, <<node, dest>>)])
             ELSE IF edge \notin st.generated
                  THEN EdgesInner(node, dests, k + 1,
                           [generated |-> st.generated \cup {edge},
                            out |-> Append(st.out, <<node, dest>>)])
                  ELSE EdgesInner(node, dests, k + 1, st)

RECURSIVE EdgesOuter(_, _, _)
\* the outer loop of Edges.__iter__ from the i-th line node on
EdgesOuter(lnodes, i, st) ==
    IF i > Len(lnodes) THEN st
    ELSE EdgesOuter(lnodes, i + 1,
             EdgesInner(lnodes[i], Neighbors_iter(lnodes[i]), 1, st))

\* one full pass of Edges.__iter__ started with `generated` = gen0
EdgesPass(gen0) == EdgesOuter(LineGraphView_iter, 1, [generated |-> gen0, out |-> <<>>])

\* list(view.edges)
Edges_iter == EdgesPass(GeneratedAtStart).out

RECURSIVE SumNeighborsLen(_, _)
\* sum(len(line_graph.neighbors(node)) for node in line_graph), first k nodes
SumNeighborsLen(lnodes, k) ==
    IF k = 0 THEN 0 ELSE Neighbors_len(lnodes[k]) + SumNeighborsLen(lnodes, k - 1)

\* Edges.__len__
Edges_len ==
    LET total == SumNeighborsLen(LineGraphView_iter, Len(LineGraphView_iter))
    IN  IF is_directed THEN total ELSE total \div 2

----------------------------------------------------------------------------
(* Arbitrary arguments of the membership tests.  A Python value is an int, *)
(* a tuple or a list (lists are sequences that cannot be hashed).  A test  *)
(* returns "True" or "False", or the name of the exception it lets out.    *)

PyInt(i) == [t |-> "int", i |-> i, items |-> <<>>]

PyTuple(s) == [t |-> "tuple", i |-> 0, items |-> s]

PyList(s) == [t |-> "list", i |-> 0, items |-> s]

\* the Python value of a line node <<u, v>>
ToPy(p) == PyTuple(<<PyInt(p[1]), PyInt(p[2])>>)

Bool(b) == IF b THEN "True" ELSE "False"

\* try: r  except caught: return False
Catch(r, caught) == IF r \in caught THEN "False" ELSE r

\* hash(x) works: ints, and tuples of such (node values are ints here)
Hashable(x) == x.t = "int" \/ (x.t = "tuple" /\ \A k \in DOMAIN x.items : x.items[k].t = "int")

\* x is a key of G._adj
IsNodeInG(x) == x.t = "int" /\ x.i \in Nodes /\ InG(x.i)

\* `v in self._adj[u]`: hashes u, looks it up, then hashes v
AdjLookup(u, v) ==
    IF ~Hashable(u) THEN "TypeError"
    ELSE IF ~IsNodeInG(u) THEN "KeyError"
    ELSE IF ~Hashable(v) THEN "TypeError"
    ELSE Bool(v.t = "int" /\ v.i \in Nodes /\ SeqHas(adj[u.i], v.i))

\* self._graph.has_edge(*node): the call itself raises TypeError unless node
\* unpacks into exactly two arguments; G.has_edge turns KeyError into False
GHasEdgeStar(node) ==
    IF node.t = "int" THEN "TypeError"
    ELSE IF Len(node.items) # 2 THEN "TypeError"
    ELSE Catch(AdjLookup(node.items[1], node.items[2]), {"KeyError"})

\* except KeyError in place of except TypeError
ContainsCaughtKeyError == {"KeyError"}

\* the exceptions LineGraphView.__contains__ turns into False
ContainsCaught == {"TypeError"}

\* LineGraphView.__contains__
LineGraphView_contains(node) == Catch(GHasEdgeStar(node), ContainsCaught)

\* LineGraphView.has_node
has_node(node) == LineGraphView_contains(node)

\* x is a 2-element sequence of ints
IsPairOfValues(x) ==
    /\ x.t # "int"
    /\ Len(x.items) = 2
    /\ x.items[1].t = "int"
    /\ x.items[2].t = "int"

\* the pair of node values a 2-element sequence of ints holds
FromPy(x) == <<x.items[1].i, x.items[2].i>>

\* `e in G.edges` for any e.  OutEdgeView: `u, v = e`, KeyError -> False.
\* EdgeView: `u, v = e[:2]`, then adj[u] or adj[v]; KeyError and ValueError
\* -> False.
GEdgesContainsPy(e) ==
    IF IsPairOfValues(e) THEN Bool(GEdgesContains(FromPy(e)))
    ELSE IF e.t = "int" THEN "TypeError"
    ELSE IF is_directed
    THEN IF Len(e.items) # 2 THEN "ValueError"
         ELSE Catch(AdjLookup(e.items[1], e.items[2]), {"KeyError"})
    ELSE IF Len(e.items) < 2 THEN "False"
         ELSE LET first == AdjLookup(e.items[1], e.items[2])
              IN  IF first = "False"
                  THEN Catch(AdjLookup(e.items[2], e.items[1]), {"KeyError"})
                  ELSE Catch(first, {"KeyError"})

\* set(node) & set(other) has one element, for two sequences of ints
OneCommonPy(node, other) ==
    Cardinality({node.items[k].i : k \in DOMAIN node.items}
                \cap {other.items[k].i : k \in DOMAIN other.items}) = 1

\* has_edge(node, other) for any two values: nothing is caught
has_edge_py(node, other) ==
    IF IsPairOfValues(node) /\ IsPairOfValues(other)
    THEN Bool(has_edge(FromPy(node), FromPy(other)))
    ELSE LET first == GEdgesContainsPy(node)
             second == GEdgesContainsPy(other)
         IN  IF first # "True" THEN first
             ELSE IF second # "True" THEN second
             ELSE IF is_directed THEN Bool(node.items[2] = other.items[1])
             ELSE Bool(OneCommonPy(node, other))

\* Neighbors.__contains__ of neighbors(node) for any value
Neighbors_contains_py(node, other) == has_edge_py(node, other)

\* edge[k] (k counted from 0): an int has no subscript, a short sequence
\* raises IndexError
Subscript(edge, k) ==
    IF edge.t = "int" THEN "TypeError"
    ELSE IF Len(edge.items) <= k THEN "IndexError"
    ELSE "ok"

\* the exceptions Edges.__contains__ turns into False
EdgesCaught == {"TypeError"}

\* the body of the try block of Edges.__contains__
EdgesContainsBody(edge) ==
    IF Subscript(edge, 0) # "ok" THEN Subscript(edge, 0)
    ELSE IF LineGraphView_contains(edge.items[1]) # "True" THEN "False"
    ELSE IF Subscript(edge, 1) # "ok" THEN Subscript(edge, 1)
    ELSE IF LineGraphView_contains(edge.items[2]) # "True" THEN "False"
    ELSE IF is_directed THEN Bool(edge.items[1].items[2] = edge.items[2].items[1])
    ELSE Bool(OneCommonPy(edge.items[1], edge.items[2]))

\* Edges.__contains__
Edges_contains(edge) == Catch(EdgesContainsBody(edge), EdgesCaught)

----------------------------------------------------------------------------
(* State machine: G is mutated from outside the view                       *)

Init ==
    /\ directed \in BOOLEAN
    /\ nodes = <<>>
    /\ adj = [u \in Nodes |-> <<>>]
    /\ edges_cached = FALSE
    /\ nbr_node = <<>>
    /\ generated = {}

\* Node values enter G in increasing order: the view and G only ever test
\* node values for equality, so which value is new does not matter.
FreshOrder(u, v) ==
    LET n == Len(nodes)
    IN  /\ ~InG(u) => u = n + 1
        /\ (~InG(v) /\ v # u) => v = (IF InG(u) THEN n + 1 ELSE n + 2)

\* G.add_edge(u, v): missing endpoints are appended to the node dictionary,
\* then adj[u][v] (and adj[v][u] for a Graph) is set; a key that is already
\* present keeps its place.
AddEdge(u, v) ==
    /\ Len(GEdges) < MaxEdges
    /\ FreshOrder(u, v)
    /\ LET nodes1 == IF InG(u) THEN nodes ELSE Append(nodes, u)
           nodes2 == IF SeqHas(nodes1, v) THEN nodes1 ELSE Append(nodes1, v)
           adj1 == IF SeqHas(adj[u], v) THEN adj
                   ELSE [adj EXCEPT ![u] = Append(@, v)]
           adj2 == IF directed \/ SeqHas(adj1[v], u) THEN adj1
                   ELSE [adj1 EXCEPT ![v] = Append(@, u)]
       IN  /\ nodes' = nodes2
           /\ adj' = adj2
    /\ UNCHANGED <<directed, edges_cached, nbr_node, generated>>

\* G.remove_edge(u, v): del adj[u][v] (and adj[v][u] for a Graph when
\* u != v); the endpoints stay in G.  Raises when the edge is absent.
RemoveEdge(u, v) ==
    /\ GHasEdge(u, v)
    /\ LET adj1 == [adj EXCEPT ![u] = Remove(@, v)]
           adj2 == IF directed \/ u = v THEN adj1
                   ELSE [adj1 EXCEPT ![v] = Remove(@, u)]
       IN  adj' = adj2
    /\ UNCHANGED <<directed, nodes, edges_cached, nbr_node, generated>>

Next ==
    \/ \E u, v \in Nodes : AddEdge(u, v)
    \/ \E u, v \in Nodes : RemoveEdge(u, v)

Spec == Init /\ [][Next]_vars

----------------------------------------------------------------------------
(* The same machine with a client that keeps the collection objects        *)

\* The client keeps one collection object per run, obtained once.
NoneKept == ~edges_cached /\ nbr_node = <<>>

\* view.edges: the first access builds the Edges object and stores it in
\* the instance
GetEdges ==
    /\ NoneKept
    /\ edges_cached' = TRUE
    /\ UNCHANGED <<directed, nodes, adj, nbr_node, generated>>

\* handle = view.neighbors(n) for a line node n the view iterates now; the
\* object keeps n and a reference to the view
GetNeighbors(n) ==
    /\ NoneKept
    /\ n \in Range(LineGraphView_iter)
    /\ nbr_node' = n
    /\ UNCHANGED <<directed, nodes, adj, edges_cached, generated>>

\* list(edges) through the kept Edges object: one full pass over G as it is
\* now.  It leaves its local `generated` behind.
IterEdges ==
    /\ edges_cached
    /\ generated' = EdgesPass(GeneratedAtStart).generated
    /\ UNCHANGED <<directed, nodes, adj, edges_cached, nbr_node>>

NextHandles ==
    \/ \E u, v \in 1..MaxKeptNode : AddEdge(u, v)
    \/ \E u, v \in 1..MaxKeptNode : RemoveEdge(u, v)
    \/ GetEdges
    \/ \E n \in Pairs : GetNeighbors(n)
    \/ IterEdges

SpecHandles == Init /\ [][NextHandles]_vars

----------------------------------------------------------------------------
(* What the properties below mean by "the edges of G"                      *)

\* G's adjacency of u lists v
Lists(u, v) == u \in Nodes /\ \E k \in DOMAIN adj[u] : adj[u][k] = v

\* the pair p of node values is written from an edge of G: u -> v for a
\* DiGraph, either orientation for a Graph
IsEdgeOfG(p) ==
    IF directed THEN Lists(p[1], p[2]) ELSE Lists(p[1], p[2]) \/ Lists(p[2], p[1])

\* the edges of G: ordered pairs for a DiGraph, endpoint sets for a Graph
EdgeSetOfG ==
    IF directed
    THEN {p \in Pairs : IsEdgeOfG(p)}
    ELSE {EndSet(p) : p \in {q \in Pairs : IsEdgeOfG(q)}}

\* the number of entries of u's adjacency
AdjCount(u) == Cardinality({v \in Nodes : Lists(u, v)})

NoDuplicates(s) == \A i, j \in DOMAIN s : s[i] = s[j] => i = j

----------------------------------------------------------------------------
(* C1: len(view.edges) equals the number of pairs one full iteration of    *)
(* view.edges yields, for every G, directed or undirected.                 *)
C1_EdgesLenIsCount == Edges_len = Len(Edges_iter)

(* C2: for every line node n that is an edge of G, len(neighbors(n)) is    *)
(* the number of line nodes iterating neighbors(n) yields; it is the       *)
(* adjacency size of n's target (directed) or the adjacency sizes of n's   *)
(* two endpoints minus 2 (undirected).                                     *)
C2_NeighborsLenIsCount ==
    \A n \in Pairs : IsEdgeOfG(n) =>
        /\ Neighbors_len(n) = Len(Neighbors_iter(n))
        /\ Neighbors_len(n) = (IF directed THEN AdjCount(n[2])
                               ELSE AdjCount(n[1]) + AdjCount(n[2]) - 2)

\* an undirected line node, not a self-loop, with two neighbours
C2_Witness ==
    \E n \in Pairs : IsEdgeOfG(n) /\ Len(Neighbors_iter(n)) = 2 /\ ~directed /\ n[1] # n[2]

(* C3: whatever edges were added and removed, len(view),                   *)
(* view.number_of_nodes() and view.order() are the current number of edges *)
(* of G, and iterating the view yields G's current edges, each once, in    *)
(* the order of G.edges.                                                   *)
C3_NodesAreCurrentEdges ==
    LET count == Cardinality(EdgeSetOfG)
        yielded == LineGraphView_iter
    IN  /\ LineGraphView_len = count
        /\ number_of_nodes = count
        /\ order = count
        /\ Len(yielded) = count
        /\ \A i \in DOMAIN yielded : IsEdgeOfG(yielded[i])
        /\ \A i, j \in DOMAIN yielded :
               (IF directed THEN yielded[i] = yielded[j]
                ELSE EndSet(yielded[i]) = EndSet(yielded[j])) => i = j
        /\ yielded = GEdges

\* an edge was removed and left an isolated node behind; two edges remain
C3_Witness ==
    /\ ~directed
    /\ \E u \in Nodes : InG(u) /\ adj[u] = <<>>
    /\ Len(LineGraphView_iter) = 2

(* C4: for undirected G one full iteration of view.edges never yields the  *)
(* same line edge twice, G edges being compared as endpoint sets; so       *)
(* (b, a) is not yielded when (a, b) is.                                   *)
C4_UndirectedNoDuplicate ==
    ~directed =>
        \A i, j \in DOMAIN Edges_iter :
            {EndSet(Edges_iter[i][1]), EndSet(Edges_iter[i][2])}
              = {EndSet(Edges_iter[j][1]), EndSet(Edges_iter[j][2])} => i = j

\* an undirected G whose line graph has three edges
C4_Witness == ~directed /\ Len(Edges_iter) = 3

----------------------------------------------------------------------------
(* The arguments the membership properties range over                      *)

\* 0 stands for a value that is never a node of G
Values == Nodes \cup {0}

\* what a candidate line node may hold: a node value, an unhashable list or
\* a hashable value that is no node
Elems == {PyInt(i) : i \in Values} \cup {PyList(<<>>), PyTuple(<<PyInt(1)>>)}

SmallElems == {PyInt(0), PyInt(1), PyInt(2), PyList(<<>>)}

\* the arities of a malformed sequence
OtherArities == {0, 1, 3}

\* candidate line nodes: a non-sequence, every 2-sequence, and sequences of
\* the other arities
NodeInputs ==
    {PyInt(1)}
      \cup {PyTuple(s) : s \in [1..2 -> Elems]}
      \cup {PyList(s) : s \in [1..2 -> SmallElems]}
      \cup UNION {{PyTuple(s) : s \in [1..n -> SmallElems]} : n \in OtherArities}

\* what a candidate line edge may hold
EdgeElems ==
    {PyInt(1), PyTuple(<<>>), PyTuple(<<PyInt(1)>>), ToPy(<<1, 1>>), ToPy(<<1, 2>>),
     ToPy(<<2, 3>>), PyTuple(<<PyInt(1), PyInt(2), PyInt(3)>>),
     PyTuple(<<PyList(<<>>), PyInt(1)>>)}

\* candidate line edges: a non-sequence and sequences of 0 to 3 elements
EdgeInputs ==
    {PyInt(1)} \cup UNION {{PyTuple(s) : s \in [1..n -> EdgeElems]} : n \in 0..3}

\* e is a 2-element sequence of two pairs of node values
IsPairOfPairs(e) ==
    /\ e.t # "int"
    /\ Len(e.items) = 2
    /\ IsPairOfValues(e.items[1])
    /\ IsPairOfValues(e.items[2])

----------------------------------------------------------------------------
(* C5: has_edge(a, b) is true exactly when a and b are both edges of G and *)
(* a[1] == b[0] (directed) or the endpoint sets of a and b have exactly    *)
(* one node in common (undirected).                                        *)
C5_HasEdgeExact ==
    \A a, b \in Pairs :
        has_edge(a, b) <=>
            /\ IsEdgeOfG(a)
            /\ IsEdgeOfG(b)
            /\ IF directed THEN a[2] = b[1]
               ELSE Cardinality(EndSet(a) \cap EndSet(b)) = 1

\* an undirected G where two edges written against G's orientation are adjacent
C5_Witness ==
    /\ ~directed
    /\ has_edge(<<2, 1>>, <<3, 2>>)
    /\ <<2, 1>> \notin Range(GEdges)
    /\ <<3, 2>> \notin Range(GEdges)

(* C6: for undirected G, has_edge(a, b) and (a, b) in view.edges are false *)
(* whenever a and b denote the same edge of G or share both endpoints.     *)
C6_NoSelfAdjacency ==
    ~directed =>
        \A a, b \in Pairs : EndSet(a) = EndSet(b) =>
            /\ ~has_edge(a, b)
            /\ Edges_contains(PyTuple(<<ToPy(a), ToPy(b)>>)) # "True"

(* C7: x in view and view.has_node(x) are true exactly when x is a         *)
(* 2-element sequence (u, v) of node values and G has an edge between u    *)
(* and v (u -> v for a DiGraph); for every other input they are false,     *)
(* and they never raise.                                                   *)
C7_ContainsExactNeverRaises ==
    \A x \in NodeInputs :
        /\ LineGraphView_contains(x) = Bool(IsPairOfValues(x) /\ IsEdgeOfG(FromPy(x)))
        /\ has_node(x) = Bool(IsPairOfValues(x) /\ IsEdgeOfG(FromPy(x)))

\* an undirected G holding an edge that is a node of the view in the
\* orientation G does not iterate, while other arguments are not
C7_Witness ==
    /\ ~directed
    /\ LineGraphView_contains(ToPy(<<2, 1>>)) = "True"
    /\ <<2, 1>> \notin Range(GEdges)
    /\ LineGraphView_contains(PyTuple(<<PyInt(1), PyList(<<>>)>>)) = "False"
    /\ LineGraphView_contains(PyInt(1)) = "False"

(* C8: the membership tests of view.edges, of neighbors(n) and has_edge    *)
(* return false, and never raise, for a malformed argument: e in           *)
(* view.edges when e is not a 2-element sequence of two pairs, and         *)
(* x in view.neighbors(n) / has_edge(n, x) when x is not a pair of node    *)
(* values.                                                                 *)
C8_MembershipNeverRaises ==
    /\ \A e \in EdgeInputs : ~IsPairOfPairs(e) => Edges_contains(e) = "False"
    /\ \A n \in Pairs : \A x \in NodeInputs :
           (IsEdgeOfG(n) /\ ~IsPairOfValues(x)) =>
               /\ has_edge_py(ToPy(n), x) = "False"
               /\ Neighbors_contains_py(ToPy(n), x) = "False"

----------------------------------------------------------------------------
(* The line edges of G, described without the loop of Edges.__iter__       *)

RECURSIVE FlatFrom(_)
\* (n, dest) for the i-th line node n on, in G's edge order, and for each
\* dest in the order of neighbors(n)
FlatFrom(i) ==
    IF i > Len(LineGraphView_iter) THEN <<>>
    ELSE LET n == LineGraphView_iter[i]
             dests == Neighbors_iter(n)
         IN  [k \in 1..Len(dests) |-> <<n, dests[k]>>] \o FlatFrom(i + 1)

\* the unordered key of a pair of line nodes
KeyOf(e) == {EndSet(e[1]), EndSet(e[2])}

RECURSIVE FirstMet(_, _)
\* the elements of flat from the k-th on whose key no earlier element has
FirstMet(flat, k) ==
    IF k > Len(flat) THEN <<>>
    ELSE (IF \E j \in 1..(k - 1) : KeyOf(flat[j]) = KeyOf(flat[k])
          THEN <<>> ELSE <<flat[k]>>) \o FirstMet(flat, k + 1)

\* what one pass over the edges of a view of the current G yields
LineEdgesOfG == IF directed THEN FlatFrom(1) ELSE FirstMet(FlatFrom(1), 1)

\* G after add_edges_from([(1,2),(2,3),(3,4)]) on an empty DiGraph
IsDirectedPath ==
    /\ directed
    /\ nodes = <<1, 2, 3, 4>>
    /\ adj = [u \in Nodes |-> IF u \in 1..3 THEN <<u + 1>> ELSE <<>>]

\* G after add_edges_from([(1,2),(2,3),(3,1)]) on an empty Graph
IsTriangle ==
    /\ ~directed
    /\ nodes = <<1, 2, 3>>
    /\ adj = [u \in Nodes |-> IF u = 1 THEN <<2, 3>>
                              ELSE IF u = 2 THEN <<1, 3>>
                              ELSE IF u = 3 THEN <<2, 1>> ELSE <<>>]

----------------------------------------------------------------------------
(* C9: the kept collection objects carry no derived data: whatever edges   *)
(* were added and removed since view.edges or neighbors(n) was obtained,   *)
(* and whatever passes ran before, len, membership and a full iteration    *)
(* through the kept object give what a view constructed on the current G   *)
(* gives.                                                                  *)
C9_HandlesReadCurrentG ==
    /\ edges_cached =>
           /\ Edges_iter = EdgesPass({}).out
           /\ Edges_iter = LineEdgesOfG
    /\ nbr_node # <<>> =>
           LET yielded == Neighbors_iter(nbr_node)
               ends == IF directed THEN {nbr_node[2]} ELSE EndSet(nbr_node)
           IN  /\ \A k \in DOMAIN yielded : IsEdgeOfG(yielded[k])
               /\ NoDuplicates(yielded)
               /\ \A u \in ends : \A v \in Nodes :
                      (Lists(u, v) /\ {u, v} # EndSet(nbr_node))
                          => \E k \in DOMAIN yielded : EndSet(yielded[k]) = {u, v}

\* the Edges object is kept, a pass over an earlier G has left a non-empty
\* `generated` behind, and G has changed since: the pass now yields a pair
\* whose key is in that set
C9_Witness ==
    /\ edges_cached
    /\ ~directed
    /\ \E i \in DOMAIN Edges_iter : KeyOf(Edges_iter[i]) \in generated
    /\ generated # EdgesPass({}).generated

(* C10: iterating view.edges visits each line node n in G's edge order and *)
(* each dest in the order of neighbors(n), emitting (n, dest): always for  *)
(* a DiGraph, and for a Graph only the first time the unordered key        *)
(* {set(n), set(dest)} is met.  The directed path [(1,2),(2,3),(3,4)]      *)
(* gives [((1,2),(2,3)), ((2,3),(3,4))] and the undirected triangle        *)
(* [(1,2),(2,3),(3,1)] gives [((1,2),(3,1)), ((1,2),(2,3)), ((1,3),(3,2))].*)
C10_EdgesIterationOrder ==
    /\ Edges_iter = LineEdgesOfG
    /\ IsDirectedPath =>
           Edges_iter = << <<<<1, 2>>, <<2, 3>>>>, <<<<2, 3>>, <<3, 4>>>> >>
    /\ IsTriangle =>
           Edges_iter = << <<<<1, 2>>, <<3, 1>>>>, <<<<1, 2>>, <<2, 3>>>>,
                           <<<<1, 3>>, <<3, 2>>>> >>

\* the undirected triangle, where two of the five visited pairs are skipped
C10_Witness == IsTriangle /\ Len(FlatFrom(1)) = 6 /\ Len(Edges_iter) = 3

----------------------------------------------------------------------------
(* The neighbours of a line node, described entry by entry                 *)

RECURSIVE AdjExcept(_, _, _)
\* the entries of the adjacency list s from the k-th on, but for the node skip
AdjExcept(s, k, skip) ==
    IF k > Len(s) THEN <<>>
    ELSE (IF s[k] = skip THEN <<>> ELSE <<s[k]>>) \o AdjExcept(s, k + 1, skip)

\* (src, n[0]) for the entries src of n[0]'s adjacency other than n[1]
IntoFirst(n) ==
    LET srcs == AdjExcept(adj[n[1]], 1, n[2])
    IN  [k \in 1..Len(srcs) |-> <<srcs[k], n[1]>>]

\* (n[1], dest) for the entries dest of n[1]'s adjacency other than n[0]
OutOfSecond(n) ==
    LET dests == AdjExcept(adj[n[2]], 1, n[1])
    IN  [k \in 1..Len(dests) |-> <<n[2], dests[k]>>]

(* C11: iterating neighbors(n) yields, for a DiGraph, (n[1], dest) for     *)
(* each dest in the adjacency order of n[1]; for a Graph, first every      *)
(* (src, n[0]) in the adjacency order of n[0] but for the src that gives n *)
(* itself, then every (n[1], dest) in the adjacency order of n[1] but for  *)
(* the dest that gives n itself.  On the undirected triangle               *)
(* [(1,2),(2,3),(3,1)], neighbors((1,2)) yields [(3,1),(2,3)] and          *)
(* neighbors((3,1)) yields [(2,3),(1,2)].                                  *)
C11_NeighborsIterationOrder ==
    /\ \A n \in Pairs : IsEdgeOfG(n) =>
           LET yielded == Neighbors_iter(n)
           IN  IF directed
               THEN /\ Len(yielded) = Len(adj[n[2]])
                    /\ \A k \in DOMAIN yielded : yielded[k] = <<n[2], adj[n[2]][k]>>
               ELSE yielded = IntoFirst(n) \o OutOfSecond(n)
    /\ IsTriangle =>
           /\ Neighbors_iter(<<1, 2>>) = << <<3, 1>>, <<2, 3>> >>
           /\ Neighbors_iter(<<3, 1>>) = << <<2, 3>>, <<1, 2>> >>

\* the undirected triangle, where each endpoint of (3,1) gives one neighbour
\* and hides one entry
C11_Witness ==
    /\ IsTriangle
    /\ Len(IntoFirst(<<3, 1>>)) = 1
    /\ Len(OutOfSecond(<<3, 1>>)) = 1
    /\ Len(adj[3]) = 2

\* the yielded tuple y denotes x: the same tuple for a DiGraph, the same
\* endpoints for a Graph
Denotes(y, x) == IF directed THEN y = x ELSE EndSet(y) = EndSet(x)

(* C12: iteration and membership of the line-graph edges agree: every pair *)
(* (a, b) yielded by iterating view.edges satisfies has_edge(a, b) and     *)
(* (a, b) in view.edges; for all a, b with has_edge(a, b), directed mode   *)
(* yields (a, b) itself and undirected mode yields exactly one pair        *)
(* denoting the unordered pair {a, b}; and, per node n, x is yielded by    *)
(* iterating neighbors(n) exactly when x is an edge of G with              *)
(* has_edge(n, x).                                                         *)
C12_IterationAgreesWithMembership ==
    LET out == Edges_iter
    IN  /\ \A k \in DOMAIN out :
               /\ has_edge(out[k][1], out[k][2])
               /\ Edges_contains(PyTuple(<<ToPy(out[k][1]), ToPy(out[k][2])>>)) = "True"
        /\ \A a, b \in Pairs : has_edge(a, b) =>
               IF directed
               THEN \E k \in DOMAIN out : out[k] = <<a, b>>
               ELSE Cardinality({k \in DOMAIN out :
                                    KeyOf(out[k]) = {EndSet(a), EndSet(b)}}) = 1
        /\ \A n \in Pairs : IsEdgeOfG(n) =>
               LET yielded == Neighbors_iter(n)
               IN  \A x \in Pairs :
                       (\E k \in DOMAIN yielded : Denotes(yielded[k], x))
                           <=> (IsEdgeOfG(x) /\ has_edge(n, x))

====
